---- MODULE Spec2Model ----
(***************************************************************************)
(* State-machine model of the snsim population generator                   *)
(* (snsim/generators.py: BaseGen / SNIaGen, snsim/utils.py).               *)
(*                                                                         *)
(* Number representation.  Floats are fixed-point integers:                *)
(*   - a redshift is a count of ticks, ZOne ticks making 1.0;              *)
(*   - a probability / uniform variate is a count of 1/POne;               *)
(*   - NaN is the distinguished value NaN, which every comparison          *)
(*     (FLt, FLe, FEq) answers FALSE for, as IEEE-754 does.                *)
(* A numpy Generator is its state, a number in 0..RngMod-1, advanced by    *)
(* one linear-congruential step per variate drawn.                         *)
(* None is the empty sequence, a present optional value v is <<v>>.        *)
(***************************************************************************)
EXTENDS Integers, Sequences, FiniteSets, TLC

(***************************************************************************)
(* State.                                                                  *)
(***************************************************************************)
VARIABLES
    status,        \* "none": no generator yet; "ok": __init__ returned;
                   \* "failed": __init__ raised
    cfg,           \* the constructor arguments (self._params, self._host, ...)
    rate_law,      \* self.rate_law
    mw_dust,       \* self._mw_dust (the dict _init_dust writes 'rv' into)
    effect_names,  \* self.sim_model.effect_names
    time_range,    \* self._time_range
    z_cdf,         \* self._z_cdf
    z_time_rate,   \* self._z_time_rate
    z_range_arg,   \* the z_range z_cdf was computed for, None if none
    raised,        \* the exception the last operation raised, "" if none
    pc,            \* position of the running generate call
    call,          \* the frame of the running generate call
    prev,          \* the first generate call completed (inputs and outcome)
    header,        \* the dict _get_header returned last, None if none
    other,         \* a second generate call on the instance, suspended while
                   \* the call of pc / call / raised runs
    astrobj,       \* the arguments and the result of ut.zobs_MinT_MaxT
    sn_sim,        \* the attributes of the sn_sim instance (src/snsim.py)
    n21,           \* the arguments and the result of salt_ut.n21_x1_model
    cosmo          \* the argument and the outcome of ut.set_cosmo

vars == <<status, cfg, rate_law, mw_dust, effect_names, time_range, z_cdf,
          z_time_rate, z_range_arg, raised, pc, call, prev,
          header, other, astrobj, sn_sim, n21, cosmo>>

\* what no method of the generator but the one named writes
utilvars == <<n21, cosmo>>
sidevars == <<header, other, astrobj, sn_sim, utilvars>>

genvars == <<status, cfg, rate_law, mw_dust, effect_names, time_range, z_cdf,
             z_time_rate, z_range_arg>>

(***************************************************************************)
(* Bounds of the model.                                                    *)
(***************************************************************************)
\* largest n_obj of a generate call
MaxObj == 2
\* the count of rejection-loop trials saturates here
MaxTrials == 3
\* ticks per unit redshift (fixed-point scale of a redshift)
ZOne == 40
\* fixed-point scale of a probability and of a uniform variate in [0,1)
POne == 8
\* number of states of a random generator
RngMod == 64

(***************************************************************************)
(* Program constants.                                                      *)
(***************************************************************************)
\* rand_gen.integers(1000, 1e6): low and (exclusive) high of a sub-seed
SeedLow == 1000
SeedHigh == 1000000
\* rand_gen.integers(low=1000, high=100000): the scatter-model seeds
SctSeedHigh == 100000
\* dz = 1e-5, the grid step of compute_zcdf, in ticks
dz == 4
\* default rate 3e-5 of _init_rate, in units of 1e-5
DefaultRate == 3
\* default mw_dust['rv'] = 3.1, in tenths
DefaultRv == 31

None == <<>>
Some(v) == <<v>>
IsNone(o) == o = <<>>
Get(o) == o[1]

NaN == 0 - 999999

Min(a, b) == IF a <= b THEN a ELSE b

\* str.lower() on the names the configurations use
Lower(nm) == CASE nm = "PTF19" -> "ptf19" [] nm = "SALT2" -> "salt2"
               [] nm = "N21" -> "n21" [] nm = "CCM89" -> "ccm89"
               [] nm = "OD94" -> "od94" [] nm = "F99" -> "f99"
               [] nm = "G10" -> "g10" [] nm = "C11" -> "c11"
               [] nm = "Planck18" -> "planck18" [] nm = "LCDM" -> "lcdm"
               [] OTHER -> nm

(***************************************************************************)
(* IEEE comparisons: any comparison with NaN is false.                     *)
(***************************************************************************)
FLt(a, b) == a # NaN /\ b # NaN /\ a < b
FLe(a, b) == a # NaN /\ b # NaN /\ a <= b
FEq(a, b) == a # NaN /\ b # NaN /\ a = b

\* a / b in floating point, scaled by one: 0/0 is NaN
FDiv(a, b, one) ==
    IF a = NaN \/ b = NaN THEN NaN
    ELSE IF b = 0 THEN NaN
    ELSE (a * one) \div b

\* int(x / y): Python's int() truncates toward zero
TruncDiv(x, y) == IF x >= 0 THEN x \div y ELSE -((-x) \div y)

(***************************************************************************)
(* The pseudo random generator.                                            *)
(***************************************************************************)
\* (mutant) one bit generator shared by the calls of the instance: a step
\* starts from where the other call left it
RngNext_shared(s) == (5 * (s + other.call.trials) + 3) % RngMod

\* one step of the bit generator (a linear congruential step)
RngNext(s) == (5 * s + 3) % RngMod

\* (mutant) a generator seeded from ambient state that earlier calls moved
default_rng_ambient(seed) ==
    ((seed % RngMod) * 37 + 11 + 7 * Len(prev)) % RngMod

\* np.random.default_rng(seed) with an integer seed: the seed is hashed
\* into the initial state
default_rng(seed) == ((seed % RngMod) * 37 + 11) % RngMod

\* (mutant) the draw is not reduced into the range
integers_unreduced(s, low, high) == low + s * high

\* rand_seed = None, written as an integer no seed is
NoSeed == 0 - 1
\* the values the operating system's entropy source may give
Entropy == {77, 90210}

\* np.random.default_rng(rand_seed) of __call__: the states the generator
\* may start in; with rand_seed None numpy seeds it from fresh entropy
SeedSequence(seed) ==
    IF seed = NoSeed THEN {default_rng(e) : e \in Entropy}
    ELSE {default_rng(seed)}

\* rand_gen.integers(low, high) after the generator moved to state s:
\* the state is spread over the half-open range [low, high)
integers(s, low, high) == low + ((s * 7919) % (high - low))

\* rand_gen.random() after the generator moved to state s: in [0, 1)
random(s) == s % POne

\* rand_gen.uniform(low, high)
uniform(s, low, high) == low + ((high - low) * random(s)) \div POne

\* rand_gen.normal(loc, scale): a symmetric variate in -2..2 sigma
normal(s, loc, scale) == loc + scale * (((s \div POne) % 5) - 2)

\* the state of a generator after k draws from state s
RECURSIVE RngSkip(_, _)
RngSkip(s, k) == IF k = 0 THEN s ELSE RngSkip(RngNext(s), k - 1)

(***************************************************************************)
(* numpy and astropy functions the generator calls.                        *)
(***************************************************************************)
\* np.linspace(start, stop, num) for num >= 0 (num < 0 raises ValueError)
linspace(start, stop, num) ==
    [i \in 1..num |-> IF num = 1 THEN start
                      ELSE start + ((i - 1) * (stop - start)) \div (num - 1)]

\* np.cumsum
RECURSIVE cumsum(_)
cumsum(s) ==
    IF Len(s) = 0 THEN <<>>
    ELSE LET h == cumsum(SubSeq(s, 1, Len(s) - 1))
         IN  Append(h, (IF Len(h) = 0 THEN 0 ELSE h[Len(h)]) + s[Len(s)])

\* the index np.interp's search gives for x in xp: the last sample point
\* that is <= x, the first one when no comparison succeeds
InterpIndex(x, xp) ==
    LET below == {i \in 1..Len(xp) : FLe(xp[i], x)}
    IN  IF below = {} THEN 1 ELSE CHOOSE i \in below : \A k \in below : k <= i

\* np.interp(x, xp, fp) raises ValueError on these arguments
InterpRaises(xp, fp) == Len(xp) = 0 \/ Len(xp) # Len(fp)

\* np.interp(x, xp, fp): left and right of the sample points the first and
\* the last value of fp, linear in between
interp(x, xp, fp) ==
    LET n == Len(xp)
        j == InterpIndex(x, xp)
    IN  IF FLt(xp[n], x) THEN fp[n]
        ELSE IF FLt(x, xp[1]) THEN fp[1]
        ELSE IF j = n THEN fp[j]
        ELSE IF FEq(xp[j], x) THEN fp[j]
        ELSE IF xp[j] = NaN \/ xp[j + 1] = NaN \/ xp[j + 1] = xp[j] THEN NaN
        ELSE fp[j] + ((fp[j + 1] - fp[j]) * (x - xp[j])) \div (xp[j + 1] - xp[j])

\* astropy cosmology.comoving_distance(z): monotonic in z
comoving_distance(z) == 3 * z - (z * z) \div (4 * ZOne)

\* np.arcsin(2 * u - 1) of a uniform variate u, in angle ticks
\* (a quarter turn is QuarterTurn ticks)
QuarterTurn == 3
arcsin2u(u) == ((2 * u - POne) * QuarterTurn) \div POne

(***************************************************************************)
(* snsim/utils.py                                                          *)
(***************************************************************************)
\* compute_z_cdf(z_shell, shell_time_rate)
compute_z_cdf(z_shell, shell_time_rate) ==
    LET dist == <<0>> \o cumsum(shell_time_rate)
        norm == dist[Len(dist)]
    IN  [z |-> z_shell,
         p |-> [i \in 1..Len(dist) |-> FDiv(dist[i], norm, POne)]]

(***************************************************************************)
(* snsim/utils.py: set_cosmo.  A density parameter is a count of           *)
(* hundredths; a key the dict does not hold is None.                       *)
(***************************************************************************)
\* the names the module snsim.utils binds: its imports and its functions
UtilsGlobals ==
    {"np", "snc", "atime", "SkyCoord", "acosmo", "u", "C_LIGHT_KMS",
     "set_cosmo", "scale_M0_jla", "init_astropy_time", "compute_z_cdf",
     "asym_gauss", "compute_z2cmb", "init_sn_model", "snc_fitter",
     "norm_flux", "flux_to_Jansky", "zobs_MinT_MaxT", "print_dic"}
\* the names set_cosmo binds: its parameter and the names it assigns
SetCosmoLocals == {"cosmo_dic", "astropy_mod", "name", "Ok0"}

\* acosmo.parameters.available in lower case, and the names set_cosmo
\* returns a model for
astropy_mod ==
    {"wmap1", "wmap3", "wmap5", "wmap7", "wmap9", "planck13", "planck15",
     "planck18"}
SetCosmoNamed ==
    {"planck18", "planck18_arxiv_v2", "planck15", "planck13", "wmap9",
     "wmap7", "wmap5"}

\* whether the name cosmo resolves inside set_cosmo
CosmoBound == "cosmo" \in SetCosmoLocals \cup UtilsGlobals

\* acosmo.w0waCDM(**cosmo_dic), on the dict as the caller passed it
w0waCDM(cosmo_dic) ==
    [kind |-> "w0waCDM", Om0 |-> cosmo_dic.Om0, Ode0 |-> cosmo_dic.Ode0]

\* set_cosmo(cosmo_dic): the exception raised, the model returned (None for
\* a return without value) and the dict as the call leaves it.  The branch
\* without 'name' evaluates the name cosmo, which neither the function nor
\* the module binds.
set_cosmo(cosmo_dic) ==
    IF ~IsNone(cosmo_dic.name)
    THEN LET name == Lower(Get(cosmo_dic.name))
         IN  IF name \notin astropy_mod
             THEN [raised |-> "ValueError", model |-> None, dic |-> cosmo_dic]
             ELSE IF name \in SetCosmoNamed
             THEN [raised |-> "",
                   model |-> Some([kind |-> name, Om0 |-> None, Ode0 |-> None]),
                   dic |-> cosmo_dic]
             ELSE [raised |-> "", model |-> None, dic |-> cosmo_dic]
    ELSE IF ~CosmoBound
    THEN [raised |-> "NameError", model |-> None, dic |-> cosmo_dic]
    ELSE [raised |-> "", model |-> Some(w0waCDM(cosmo_dic)), dic |-> cosmo_dic]

\* the dicts set_cosmo is applied to
CosmoDics ==
    [name : {None, Some("Planck18"), Some("wmap1"), Some("LCDM")},
     Om0 : {Some(30)},
     Ok0 : {None, Some(5)},
     Ode0 : {None, Some(60)}]
NoCosmo ==
    [dic |-> [name |-> None, Om0 |-> None, Ok0 |-> None, Ode0 |-> None],
     called |-> FALSE, out |-> [raised |-> "", model |-> None],
     arg |-> [name |-> None, Om0 |-> None, Ok0 |-> None, Ode0 |-> None]]

\* a caller applies set_cosmo to the dict it holds
SetCosmo ==
    /\ ~cosmo.called
    /\ ~IsNone(cosmo.dic.Om0)
    /\ LET r == set_cosmo(cosmo.dic)
       IN  cosmo' = [dic |-> r.dic, called |-> TRUE,
                     out |-> [raised |-> r.raised, model |-> r.model],
                     arg |-> cosmo.dic]
    /\ UNCHANGED <<genvars, raised, pc, call, prev, header, other, astrobj,
                   sn_sim, n21>>

(***************************************************************************)
(* Configurations: the arguments of SNIaGen(params, cmb, cosmology, ...).  *)
(***************************************************************************)
\* params['rate']: absent, a number, a numeric string or a registry name
RateNum(r) == [kind |-> "num", num |-> r, name |-> ""]
RateAbsent == [kind |-> "absent", num |-> 0, name |-> ""]
RateNumStr(r) == [kind |-> "numstr", num |-> r, name |-> ""]
RateName(nm) == [kind |-> "name", num |-> 0, name |-> nm]

\* a survey footprint: a polygon of the (ra, dec) plane, here a rectangle;
\* one of zero width has zero area
FpPart == [ra0 |-> 0 - 1, ra1 |-> 8, dec0 |-> 0 - 4, dec1 |-> 2]
FpEmpty == [ra0 |-> 4, ra1 |-> 4, dec0 |-> 0 - 4, dec1 |-> 2]

VpecDists == {None, Some([mean_vpec |-> 0, sig_vpec |-> 3])}
Hosts == {None, Some("catalog")}
Footprints == {None, Some(FpPart), Some(FpEmpty)}
MwDusts == {None, Some([model |-> "CCM89", rv |-> None])}
SctModels == {None, Some("G10")}

Config(vp, ho, fp, mw, sct, rate) ==
    [vpec_dist |-> vp, host |-> ho, survey_footprint |-> fp, mw_dust |-> mw,
     dipole |-> None,
     rate |-> rate, rate_pw |-> None,
     model_name |-> "salt2", has_bandfluxcov |-> TRUE,
     dist_x1 |-> <<0, 2>>,
     dist_c |-> <<0, 1, 2>>,
     M0 |-> 0 - 19, alpha |-> 1, beta |-> 3, mod_fcov |-> None,
     mag_sct |-> 1, sct_model |-> sct]

\* the configurations of the main specification
CoreConfigs ==
    {Config(vp, ho, fp, mw, sct, RateNum(r)) :
        vp \in VpecDists, ho \in Hosts, fp \in Footprints,
        mw \in MwDusts, sct \in SctModels, r \in {0, 2}}

\* further configurations: a magnitude dipole, with and without dust and a
\* velocity distribution
Dipole == [A |-> 1, B |-> 2]
DipoleConfigs ==
    {[Config(vp, None, None, mw, None, RateNum(2)) EXCEPT !.dipole = Some(Dipole)] :
        vp \in VpecDists, mw \in MwDusts}

\* model names in both cases, an unsupported one, and a model handle
\* without bandfluxcov
ModelConfigs ==
    {[Config(None, None, None, None, None, RateNum(2))
         EXCEPT !.model_name = m, !.has_bandfluxcov = b] :
        m \in {"salt2", "SALT2", "salt3", "nugent-sn1a"}, b \in BOOLEAN}

\* params without a 'rate' key
RateAbsentConfigs ==
    {Config(vp, None, None, None, None, RateAbsent) : vp \in VpecDists}

\* dust laws beside CCM89: another known one, and a name no law has
DustLawConfigs ==
    {Config(None, None, fp, Some([model |-> m, rv |-> None]), None, RateNum(2)) :
        m \in {"F99", "XYZ"}, fp \in {None, Some(FpPart)}}

\* params['rate'] as a string: a number, the registry name in both cases,
\* and a name the registry does not hold
RateStrConfigs ==
    {Config(None, None, None, None, None, r) :
        r \in {RateNumStr(2), RateName("ptf19"), RateName("PTF19"),
               RateName("sfr")}}

\* mw_dust given with its 'rv' key
DustRvConfigs ==
    {Config(None, None, None, Some([model |-> "CCM89", rv |-> Some(25)]),
            None, RateNum(2))}

\* dist_x1 given as a string: the redshift-dependent model in both cases,
\* and a name that is no model
DistX1StrConfigs ==
    {[Config(None, None, None, None, None, RateNum(2)) EXCEPT !.dist_x1 = <<d>>] :
        d \in {"N21", "n21", "gauss"}}

\* the configurations of the main specification beside CoreConfigs
ExtraConfigs ==
    DipoleConfigs \cup ModelConfigs \cup RateAbsentConfigs \cup DustLawConfigs
        \cup RateStrConfigs \cup DustRvConfigs \cup DistX1StrConfigs

\* the configuration before any constructor ran
NoConfig == Config(None, None, None, None, None, RateAbsent)

\* the z_range arguments of compute_zcdf explored, in ticks
ZRanges == {<<0, 12>>, <<4, 4>>, <<0, 4>>, <<6, 4>>, <<8, 0>>}
\* the time_range values explored
TimeRanges == {<<0, 16>>, <<16, 0>>}
\* the root seeds explored
Seeds == {42, 1234}

(***************************************************************************)
(* BaseGen.__init__ / SNIaGen.__init__                                     *)
(***************************************************************************)
\* (mutant) the setter stores whatever it is given
SetTimeRange_unchecked(tr) ==
    /\ status = "ok" /\ pc = "idle"
    /\ time_range' = Some(tr)
    /\ raised' = ""
    /\ UNCHANGED <<status, cfg, rate_law, mw_dust, effect_names, z_cdf,
                   z_time_rate, z_range_arg, pc, call, prev, sidevars>>

\* (mutant) the exclusivity test is skipped
VpecHostConflictSkipped(vp, ho) == FALSE

\* the guard of BaseGen.__init__
VpecHostConflict(vp, ho) == ~IsNone(vp) /\ ~IsNone(ho)

\* BaseGen._init_rate
_init_rate(c) ==
    LET rate == CASE c.rate.kind = "absent" -> Some(DefaultRate)
                  [] c.rate.kind = "num" -> Some(c.rate.num)
                  [] c.rate.kind = "numstr" -> Some(c.rate.num)
                  [] OTHER -> None
        rate_pw == IF IsNone(c.rate_pw) THEN 0 ELSE Get(c.rate_pw)
    IN  [z0 |-> rate, pw |-> rate_pw]

\* SNIaGen._init_register_rate: None unless the name is ptf19
\* (2.43e-5 * (70 / H0)**3 with H0 = 70, in units of 1e-5, rounded)
_init_register_rate(c) ==
    IF Lower(c.rate.name) = "ptf19" THEN Some([z0 |-> Some(2), pw |-> 0])
    ELSE None

\* (mutant) every model name passes the test
ModelAvailableAlways(c) == TRUE

\* SNIaGen._available_models and the test of _init_sim_model
_available_models == {"salt2", "salt3"}
ModelAvailable(c) == Lower(c.model_name) \in _available_models

\* the effects _init_sim_model and _init_dust put on the sncosmo model
SctEffect(c) ==
    IF IsNone(c.sct_model) THEN {}
    ELSE IF Lower(Get(c.sct_model)) = "g10" THEN {"G10_"}
    ELSE IF Lower(Get(c.sct_model)) = "c11" THEN {"C11_"}
    ELSE {}

\* BaseGen._init_dust: the dict with 'rv' set, and whether init_mw_dust ran
DustRvAbsent(mw) == ~IsNone(mw) /\ IsNone(Get(mw).rv)
_init_dust(mw) ==
    IF DustRvAbsent(mw)
    THEN Some([model |-> Get(mw).model, rv |-> Some(DefaultRv)])
    ELSE mw
DustEffect(mw) == IF DustRvAbsent(mw) THEN {"mw_"} ELSE {}

\* dst_ut.init_mw_dust(model, mw_dust), called by _init_dust when 'rv' is
\* not in mw_dust: it puts the effect 'mw_' on the model.  Its code is not
\* part of the sources modelled; on a name that is no dust law it may add
\* the effect as well as raise.
KnownDustLaws == {"ccm89", "od94", "f99"}
init_mw_dust(mw) ==
    IF ~DustRvAbsent(mw) THEN {"skipped"}
    ELSE IF Lower(Get(mw).model) \in KnownDustLaws THEN {"added"}
    ELSE {"added", "ValueError"}

\* the exception __init__ raises on configuration c when init_mw_dust ends
\* as dust says, "" if it returns
InitRaises(c, dust) ==
    IF VpecHostConflict(c.vpec_dist, c.host) THEN "ValueError"
    ELSE IF ~ModelAvailable(c) THEN "ValueError"
    ELSE IF dust = "ValueError" THEN "ValueError"
    ELSE IF ~c.has_bandfluxcov THEN "ValueError"
    ELSE IF c.model_name \notin _available_models THEN "UnboundLocalError"
    ELSE ""

Construct(c) ==
    /\ status = "none"
    /\ cfg' = c
    /\ \E dust \in init_mw_dust(c.mw_dust) : raised' = InitRaises(c, dust)
    /\ IF raised' # ""
       THEN /\ status' = "failed"
            /\ UNCHANGED <<rate_law, mw_dust, effect_names>>
       ELSE /\ status' = "ok"
            /\ rate_law' = (IF IsNone(_init_rate(c).z0)
                            THEN _init_register_rate(c)
                            ELSE Some(_init_rate(c)))
            /\ mw_dust' = _init_dust(c.mw_dust)
            /\ effect_names' = SctEffect(c) \cup DustEffect(c.mw_dust)
    /\ time_range' = None
    /\ z_cdf' = None
    /\ z_time_rate' = None
    /\ UNCHANGED <<z_range_arg, pc, call, prev, sidevars>>

(***************************************************************************)
(* BaseGen._get_header and SNIaGen._update_header                          *)
(***************************************************************************)
\* self._general_par as _init_general_par and _update_general_par leave it
_general_par ==
    [mw_dust |-> IF IsNone(mw_dust) THEN None ELSE Some(Get(mw_dust).model),
     mw_rv |-> IF IsNone(mw_dust) THEN None ELSE Get(mw_dust).rv,
     mod_fcov |-> IF IsNone(cfg.mod_fcov) THEN FALSE ELSE Get(cfg.mod_fcov),
     M0 |-> cfg.M0,
     sigM |-> cfg.mag_sct,
     alpha |-> cfg.alpha,
     beta |-> cfg.beta]

\* the parameters of the scatter effect _update_header copies
SctHeaderPars ==
    IF IsNone(cfg.sct_model) THEN {}
    ELSE IF Lower(Get(cfg.sct_model)) = "g10"
    THEN {"G10_L0", "G10_F0", "G10_F1", "G10_dL"}
    ELSE IF Lower(Get(cfg.sct_model)) = "c11" THEN {"C11_Cuu", "C11_Sc"}
    ELSE {}

\* _get_header raises on self.rate_law[0] when no rate law is set
HeaderRaises == IF IsNone(rate_law) THEN "TypeError" ELSE ""

\* the dict _get_header returns: a key the code does not set is None
_get_header ==
    LET gp == _general_par
        x1 == cfg.dist_x1
        c == cfg.dist_c
    IN  [obj_type |-> Some("SNIa"),
         rate |-> Get(rate_law).z0,
         rate_pw |-> Some(Get(rate_law).pw),
         model_name |-> Some(Lower(cfg.model_name)),
         mw_dust |-> gp.mw_dust,
         mod_fcov |-> Some(gp.mod_fcov),
         M0 |-> Some(gp.M0),
         sigM |-> Some(gp.sigM),
         alpha |-> Some(gp.alpha),
         beta |-> Some(gp.beta),
         mw_mod |-> IF IsNone(mw_dust) THEN None ELSE Some(Get(mw_dust).model),
         mw_rv |-> IF IsNone(mw_dust) THEN None ELSE Get(mw_dust).rv,
         m_vp |-> IF IsNone(cfg.vpec_dist) THEN None
                  ELSE Some(Get(cfg.vpec_dist).mean_vpec),
         s_vp |-> IF IsNone(cfg.vpec_dist) THEN None
                  ELSE Some(Get(cfg.vpec_dist).sig_vpec),
         mean_x1 |-> IF Len(x1) = 1 THEN None ELSE Some(x1[1]),
         dist_x1 |-> IF Len(x1) = 1 THEN Some(x1[1])
                     ELSE IF Len(x1) = 3 THEN Some("asym_gauss")
                     ELSE IF Len(x1) = 2 THEN Some("gauss") ELSE None,
         sig_x1 |-> IF Len(x1) = 2 THEN Some(x1[2]) ELSE None,
         sig_x1_low |-> IF Len(x1) = 3 THEN Some(x1[2]) ELSE None,
         sig_x1_hi |-> IF Len(x1) = 3 THEN Some(x1[3]) ELSE None,
         mean_c |-> Some(c[1]),
         dist_c |-> IF Len(c) = 3 THEN Some("asym_gauss") ELSE Some("gauss"),
         sig_c |-> IF Len(c) = 3 THEN None ELSE Some(c[2]),
         sig_c_low |-> IF Len(c) = 3 THEN Some(c[2]) ELSE None,
         sig_c_hi |-> IF Len(c) = 3 THEN Some(c[3]) ELSE None,
         sct_mod |-> cfg.sct_model,
         sct_par |-> IF SctHeaderPars = {} THEN None ELSE Some(SctHeaderPars)]

GetHeader ==
    /\ status = "ok" /\ pc = "idle"
    /\ raised' = HeaderRaises
    /\ header' = (IF HeaderRaises # "" THEN header ELSE Some(_get_header))
    /\ UNCHANGED <<genvars, pc, call, prev, other, astrobj, sn_sim, utilvars>>

(***************************************************************************)
(* BaseGen.time_range (setter)                                             *)
(***************************************************************************)
SetTimeRange(tr) ==
    /\ status = "ok" /\ pc = "idle"
    /\ time_range' = (IF tr[1] > tr[2] THEN time_range ELSE Some(tr))
    /\ raised' = ""
    /\ UNCHANGED <<status, cfg, rate_law, mw_dust, effect_names, z_cdf,
                   z_time_rate, z_range_arg, pc, call, prev, sidevars>>

(***************************************************************************)
(* BaseGen.rate and BaseGen.compute_zcdf                                   *)
(***************************************************************************)
RECURSIVE Pow(_, _)
Pow(b, e) == IF e = 0 THEN 1 ELSE b * Pow(b, e - 1)

\* rate_z0 * (1 + z)**rpw
rate(law, z) == (law.z0 * Pow(ZOne + z, law.pw)) \div Pow(ZOne, law.pw)

\* int((z_max - z_min) / dz)
ShellCount(z_range) == TruncDiv(z_range[2] - z_range[1], dz)

\* the exception compute_zcdf raises, "" if it returns
ZcdfRaises(law, z_range) ==
    IF ShellCount(z_range) < 0 THEN "ValueError"
    ELSE IF IsNone(law) THEN "TypeError"
    ELSE ""

\* z_shell, and shell_time_rate = rate * shell_vol / (1 + z_shell_center)
z_shell(z_range) == linspace(z_range[1], z_range[2], ShellCount(z_range))
shell_time_rate(law, zs) ==
    [i \in 1..(Len(zs) - 1) |->
        LET center == (zs[i + 1] + zs[i]) \div 2
            co1 == comoving_distance(zs[i + 1])
            co0 == comoving_distance(zs[i])
            shell_vol == (4 * 314 * (co1 * co1 * co1 - co0 * co0 * co0)) \div 300
        IN  (rate(law, center) * shell_vol * ZOne) \div (ZOne + center)]

ComputeZcdf(z_range) ==
    /\ status = "ok" /\ pc = "idle"
    /\ raised' = ZcdfRaises(rate_law, z_range)
    /\ IF ZcdfRaises(rate_law, z_range) # ""
       THEN UNCHANGED <<z_cdf, z_time_rate, z_range_arg>>
       ELSE LET zs == z_shell(z_range)
                law == [z0 |-> Get(Get(rate_law).z0), pw |-> Get(rate_law).pw]
                str == shell_time_rate(law, zs)
            IN  /\ z_cdf' = Some(compute_z_cdf(zs, str))
                /\ z_time_rate' = Some([z |-> zs, rate |-> str])
                /\ z_range_arg' = Some(z_range)
    /\ UNCHANGED <<status, cfg, rate_law, mw_dust, effect_names, time_range,
                   pc, call, prev, sidevars>>

(***************************************************************************)
(* External collaborators of a generate call.                              *)
(***************************************************************************)
\* 2 * np.pi in angle ticks
TwoPi == 4 * QuarterTurn

\* shapely: polygon.contains(Point(ra, dec)) holds of interior points only
contains(fp, ra, dec) ==
    fp.ra0 < ra /\ ra < fp.ra1 /\ fp.dec0 < dec /\ dec < fp.dec1

\* the host catalog and host.random_choice(n, seed, z_cdf): n rows chosen
\* by a generator seeded with seed
HostCatalog ==
    << [redshift |-> 3, ra |-> 1, dec |-> 0 - 1, v_radial |-> 2],
       [redshift |-> 7, ra |-> 5, dec |-> 1, v_radial |-> 0 - 3],
       [redshift |-> 10, ra |-> 9, dec |-> 2, v_radial |-> 1] >>
random_choice(n, seed) ==
    [i \in 1..n |->
        HostCatalog[(RngSkip(default_rng(seed), i) % Len(HostCatalog)) + 1]]

\* ut.compute_z2cmb(ra, dec, cmb): minus the projection of the CMB velocity
\* on the line of sight
compute_z2cmb(ra, dec) == 0 - ((((ra + dec) % 3) - 1) * 2)

\* dst_ut.compute_ebv(ra, dec): the reddening map
compute_ebv(ra, dec) == (ra + 2 * (dec + QuarterTurn)) % 4

\* BaseGen._compute_dipole: A + B * cos(theta)
_compute_dipole(d, ra, dec) == d.A + d.B * ((((ra - dec) % 3)) - 1)

(***************************************************************************)
(* BaseGen.gen_astrobj_par and the functions it calls.                     *)
(***************************************************************************)
\* gen_peak_time(n, rand_gen): rand_gen.uniform(*self.time_range, size=n)
gen_peak_time(n, s) ==
    [i \in 1..n |-> uniform(RngSkip(s, i), Get(time_range)[1], Get(time_range)[2])]

\* gen_zcos(n, rand_gen): np.interp(uni_var, self.z_cdf[1], self.z_cdf[0])
zcos_of(uni_var) == interp(uni_var, Get(z_cdf).p, Get(z_cdf).z)
gen_zcos(n, s) == [i \in 1..n |-> zcos_of(random(RngSkip(s, i)))]

\* gen_vpec(n, rand_gen)
gen_vpec(n, s) ==
    [i \in 1..n |-> normal(RngSkip(s, i), Get(cfg.vpec_dist).mean_vpec,
                           Get(cfg.vpec_dist).sig_vpec)]

\* gen_coord(n, rand_gen) without footprint: ra, then dec
gen_coord_ra(n, s) == [i \in 1..n |-> uniform(RngSkip(s, i), 0, TwoPi)]
gen_coord_dec(n, s) == [i \in 1..n |-> arcsin2u(random(RngSkip(s, n + i)))]

\* (mutant) every candidate is appended
CoordAcceptedAlways(fp, ra, dec) == TRUE

\* the acceptance test of the rejection loop of gen_coord
CoordAccepted(fp, ra, dec) == contains(fp, ra, dec)

\* the exception gen_astrobj_par raises before the coordinates are drawn
AstroRaises ==
    IF IsNone(time_range) THEN "TypeError"
    ELSE IF IsNone(cfg.host) /\ IsNone(z_cdf) THEN "TypeError"
    ELSE IF IsNone(cfg.host) /\ InterpRaises(Get(z_cdf).p, Get(z_cdf).z)
         THEN "ValueError"
    ELSE ""

\* (mutant) the seed of the velocities is drawn before the seed of the
\* coordinates when a velocity distribution is configured
AstroHead_vpec_first(n, s0) ==
    LET s1 == RngSkip(s0, n)
        s2 == IF IsNone(cfg.host) THEN RngSkip(s1, n) ELSE RngNext(s1)
        hseed == integers(s2, SeedLow, SeedHigh)
        s3 == RngNext(s2)
        s4 == RngNext(s3)
        first == IF IsNone(cfg.vpec_dist) THEN s3 ELSE s4
        second == IF IsNone(cfg.vpec_dist) THEN s4 ELSE s3
    IN  [t0 |-> gen_peak_time(n, s0),
         zcos |-> IF IsNone(cfg.host) THEN gen_zcos(n, s1)
                  ELSE [i \in 1..n |-> random_choice(n, hseed)[i].redshift],
         host |-> IF IsNone(cfg.host) THEN <<>> ELSE random_choice(n, hseed),
         opt_seeds |-> <<integers(first, SeedLow, SeedHigh),
                         integers(second, SeedLow, SeedHigh)>>,
         seeds |-> (IF IsNone(cfg.host) THEN <<>>
                    ELSE <<[role |-> "host", v |-> hseed]>>)
                   \o <<[role |-> "opt", v |-> integers(first, SeedLow, SeedHigh)],
                        [role |-> "opt", v |-> integers(second, SeedLow, SeedHigh)]>>,
         rand_gen |-> s4]

\* gen_astrobj_par up to the optional seeds: rand_gen is the generator the
\* caller passed (np.random.default_rng(seed) of a Generator is that Generator)
AstroHead(n, s0) ==
    LET s1 == RngSkip(s0, n)
        s2 == IF IsNone(cfg.host) THEN RngSkip(s1, n) ELSE RngNext(s1)
        hseed == integers(s2, SeedLow, SeedHigh)
        s3 == RngNext(s2)
        s4 == RngNext(s3)
    IN  [t0 |-> gen_peak_time(n, s0),
         zcos |-> IF IsNone(cfg.host) THEN gen_zcos(n, s1)
                  ELSE [i \in 1..n |-> random_choice(n, hseed)[i].redshift],
         host |-> IF IsNone(cfg.host) THEN <<>> ELSE random_choice(n, hseed),
         opt_seeds |-> <<integers(s3, SeedLow, SeedHigh),
                         integers(s4, SeedLow, SeedHigh)>>,
         seeds |-> (IF IsNone(cfg.host) THEN <<>>
                    ELSE <<[role |-> "host", v |-> hseed]>>)
                   \o <<[role |-> "opt", v |-> integers(s3, SeedLow, SeedHigh)],
                        [role |-> "opt", v |-> integers(s4, SeedLow, SeedHigh)]>>,
         rand_gen |-> s4]

\* the rest of gen_astrobj_par once ra and dec are known
AstroTable(n, head, ra, dec) ==
    LET vpec == IF ~IsNone(cfg.vpec_dist)
                THEN gen_vpec(n, default_rng(head.opt_seeds[2]))
                ELSE IF ~IsNone(cfg.host)
                THEN [i \in 1..n |-> head.host[i].v_radial]
                ELSE [i \in 1..Len(ra) |-> 0]
    IN  [kind |-> "DataFrame",
         zcos |-> head.zcos,
         como_dist |-> [i \in 1..Len(head.zcos) |->
                           IF head.zcos[i] = NaN THEN NaN
                           ELSE comoving_distance(head.zcos[i])],
         z2cmb |-> [i \in 1..Len(ra) |-> compute_z2cmb(ra[i], dec[i])],
         sim_t0 |-> head.t0,
         ra |-> ra,
         dec |-> dec,
         vpec |-> vpec,
         dip_dM |-> IF IsNone(cfg.dipole) THEN None
                    ELSE Some([i \in 1..Len(ra) |->
                                  _compute_dipole(Get(cfg.dipole), ra[i], dec[i])]),
         mag_sct |-> None]

\* a table the caller generated beforehand: m rows, as a DataFrame or as a
\* dict of arrays
PreTable(given) ==
    [kind |-> given.kind,
     zcos |-> [i \in 1..given.m |-> 2 * i],
     como_dist |-> [i \in 1..given.m |-> comoving_distance(2 * i)],
     z2cmb |-> [i \in 1..given.m |-> compute_z2cmb(i, 1)],
     sim_t0 |-> [i \in 1..given.m |-> 3 * i],
     ra |-> [i \in 1..given.m |-> i],
     dec |-> [i \in 1..given.m |-> 1],
     vpec |-> [i \in 1..given.m |-> 0],
     dip_dM |-> None,
     mag_sct |-> None]

(***************************************************************************)
(* snsim/salt_utils.py: n21_x1_model.  A stretch x1 is a count of           *)
(* hundredths; a density is a count of 1/1000 per unit of x1.               *)
(***************************************************************************)
\* the constants of the paper, in hundredths
N21_a == 51
N21_K == 87
N21_mu1 == 37
N21_mu2 == 0 - 122
N21_sig1 == 61
N21_sig2 == 56
\* number of points of the grid x (the code takes 100000)
N21Grid == 24
\* scale of the cumulative F_old: 1000 (density) times 100 (grid step)
FOne == 100000

\* 1000 * exp(-y), y given in eighths: the rational 1 / (1 + y + y^2/2 + y^3/6)
ExpNeg(y8) ==
    IF y8 > 80 THEN 0
    ELSE (1000 * 3072) \div (3072 + 384 * y8 + 24 * y8 * y8 + y8 * y8 * y8)

\* gauss(mu, sig, x) of n21_x1_model:
\* exp(-0.5 * ((x - mu) / sig)**2) / sqrt(2 * pi * sig**2)
gauss(mu, sig, x) ==
    (ExpNeg((4 * (x - mu) * (x - mu)) \div (sig * sig)) * 40) \div sig

\* x, f_old and F_old = np.cumsum(f_old) * (x[1] - x[0])
N21_x == linspace(N21_mu2 - 10 * N21_sig2, N21_mu1 + 10 * N21_sig1, N21Grid)
f_old ==
    [i \in 1..N21Grid |->
        (N21_a * gauss(N21_mu1, N21_sig1, N21_x[i])
            + (100 - N21_a) * gauss(N21_mu2, N21_sig2, N21_x[i])) \div 100]
F_old == [i \in 1..N21Grid |-> cumsum(f_old)[i] * (N21_x[2] - N21_x[1])]

\* the fifth root of v, rounded down
Root5(v) ==
    CHOOSE r \in 0..70 :
        r * r * r * r * r <= v /\ v < (r + 1) * (r + 1) * (r + 1) * (r + 1) * (r + 1)

\* (1 + z)**2.8 for z in ticks, scaled by ZOne^3; NaN for 1 + z < 0
Pow28(z) ==
    IF z = NaN \/ ZOne + z < 0 THEN NaN
    ELSE (ZOne + z) * (ZOne + z)
            * Root5((ZOne + z) * (ZOne + z) * (ZOne + z) * (ZOne + z) * ZOne)

\* delta_z = 1 / (1 / (K * (1 + z)**2.8) + 1), in hundredths
delta_z(z) ==
    IF Pow28(z) = NaN THEN NaN
    ELSE (100 * N21_K * Pow28(z))
            \div (N21_K * Pow28(z) + 100 * ZOne * ZOne * ZOne)

\* is_young = young_or_old < delta_z, a uniform variate against hundredths
is_young(young_or_old, z) == FLt(young_or_old * 100, delta_z(z) * POne)

\* np.interp(rand_old, F_old, x)
interp_old(rand_old) == interp((rand_old * FOne) \div POne, F_old, N21_x)

\* the three arrays n21_x1_model draws from rand_gen in state s, in order
N21Draws(size, s) ==
    [young_or_old |-> [i \in 1..size |-> random(RngSkip(s, i))],
     rand_normal |-> [i \in 1..size |->
                         normal(RngSkip(s, size + i), N21_mu1, N21_sig1)],
     rand_old |-> [i \in 1..size |-> random(RngSkip(s, 2 * size + i))]]

\* (mutant) the old-population value is added to every object
n21_x1_model_unmasked(z, s) ==
    LET d == N21Draws(Len(z), s)
    IN  [i \in 1..Len(z) |->
            d.rand_normal[i]
                * (IF is_young(d.young_or_old[i], z[i]) THEN 1 ELSE 0)
            + interp_old(d.rand_old[i])]

\* n21_x1_model(z, rand_gen) for an array z of redshifts
n21_x1_model(z, s) ==
    LET d == N21Draws(Len(z), s)
    IN  [i \in 1..Len(z) |->
            d.rand_normal[i]
                * (IF is_young(d.young_or_old[i], z[i]) THEN 1 ELSE 0)
            + interp_old(d.rand_old[i])
                * (IF is_young(d.young_or_old[i], z[i]) THEN 0 ELSE 1)]

\* n21_x1_model(None, rand_gen): np.atleast_1d(None) has one element, and
\* 1 + None raises
N21Raises(z) == IF IsNone(z) THEN "TypeError" ELSE ""

\* the redshift arrays and generators the function is applied to
N21Zs == {<<>>} \cup {<<a>> : a \in {0, 4, 12}}
             \cup {<<a, b>> : a \in {0, 4, 12}, b \in {0, 4, 12}}
N21Gens == {4 * k + 1 : k \in 0..15}
NoN21 == [z |-> <<>>, rand_gen |-> 0, called |-> FALSE, out |-> <<>>]

\* a caller applies n21_x1_model to the arguments it holds
N21X1Model ==
    /\ ~n21.called
    /\ n21.rand_gen # 0
    /\ n21' = [n21 EXCEPT !.called = TRUE,
                          !.out = n21_x1_model(n21.z, n21.rand_gen)]
    /\ UNCHANGED <<genvars, raised, pc, call, prev, header, other, astrobj,
                   sn_sim, cosmo>>

(***************************************************************************)
(* SNIaGen: the per-object hooks of a generate call.                       *)
(***************************************************************************)
\* ut.asym_gauss(mean, sig_low, sig_high=None, rand_gen, size)
asym_gauss(par, s, size) ==
    LET mean == par[1]
        sig_low == par[2]
        sig_high == IF Len(par) >= 3 THEN par[3] ELSE par[2]
        low_or_high == [i \in 1..size |-> random(RngSkip(s, i))]
        nbr == [i \in 1..size |->
                   LET g == normal(RngSkip(s, size + i), 0, 1)
                   IN  IF g < 0 THEN 0 - g ELSE g]
        cond == [i \in 1..size |->
                   sig_high + sig_low # 0
                   /\ low_or_high[i] * (sig_high + sig_low) < sig_low * POne]
    IN  [i \in 1..size |->
            mean + nbr[i] * (IF cond[i] THEN 0 - sig_low ELSE sig_high)]

\* SNIaGen.gen_coh_scatter(n_sn, rand_gen)
gen_coh_scatter(n_sn, s) ==
    [i \in 1..n_sn |-> normal(RngSkip(s, i), 0, cfg.mag_sct)]

\* (mutant) the table is rebuilt over n_sn rows, the peak times reset
_update_astrobj_par_rebuilt(n_sn, par, s) ==
    [par EXCEPT !.mag_sct = Some(gen_coh_scatter(n_sn, s)),
                !.sim_t0 = [i \in 1..n_sn |-> 0]]

\* SNIaGen._update_astrobj_par(n_sn, astrobj_par, rand_gen): the table
\* passed is written to, astrobj_par['mag_sct'] = ...
_update_astrobj_par(n_sn, par, s) ==
    [par EXCEPT !.mag_sct = Some(gen_coh_scatter(n_sn, s))]

\* isinstance(dist_x1, str): a string s is held as <<s>>, a list of
\* numbers has two or three entries
IsStr(d) == Len(d) = 1

\* SNIaGen.gen_salt_par(n_sn, rand_gen, z): x1 and c, each from its own
\* generator seeded by one of the two salt2_seeds; z is None or the
\* redshifts.  A string dist_x1 other than n21 leaves sim_x1 unbound.
gen_salt_par(n_sn, s, z) ==
    LET seed0 == integers(RngSkip(s, 1), SeedLow, SeedHigh)
        seed1 == integers(RngSkip(s, 2), SeedLow, SeedHigh)
        x1 == cfg.dist_x1
        n21_branch == IsStr(x1) /\ Lower(x1[1]) = "n21"
    IN  [salt2_seeds |-> <<seed0, seed1>>,
         n21_branch |-> n21_branch,
         raised |-> IF n21_branch THEN N21Raises(z)
                    ELSE IF IsStr(x1) THEN "UnboundLocalError"
                    ELSE "",
         sim_x1 |-> IF n21_branch
                    THEN (IF IsNone(z) THEN <<>>
                          ELSE n21_x1_model(Get(z), default_rng(seed0)))
                    ELSE IF IsStr(x1) THEN <<>>
                    ELSE asym_gauss(x1, default_rng(seed0), n_sn),
         sim_c |-> asym_gauss(cfg.dist_c, default_rng(seed1), n_sn)]

\* the list gen_snc_par returns, and the seeds it drew: salt is what
\* gen_salt_par returned, sct_seeds the seeds of the scatter effect
SncParList(salt, model_seed, scattered, sct_seeds) ==
    [raised |-> salt.raised,
     n21_branch |-> salt.n21_branch,
     sim_x1 |-> salt.sim_x1,
     snc_par |->
        [i \in 1..Min(Len(salt.sim_x1), Len(salt.sim_c)) |->
            [x1 |-> salt.sim_x1[i], c |-> salt.sim_c[i],
             RndS |-> IF scattered /\ i <= Len(sct_seeds)
                      THEN Some(sct_seeds[i]) ELSE None]],
     seeds |-> <<[role |-> "model", v |-> model_seed],
                 [role |-> "salt", v |-> salt.salt2_seeds[1]],
                 [role |-> "salt", v |-> salt.salt2_seeds[2]]>>
               \o [i \in 1..Len(sct_seeds) |->
                      [role |-> "scatter", v |-> sct_seeds[i]]]]

\* SNIaGen.gen_snc_par(n_sn, astrobj_par, rand_gen), zcos the column
\* astrobj_par['zcos']
gen_snc_par(n_sn, zcos, s) ==
    LET s1 == RngNext(s)
        model_seed == integers(s1, SeedLow, SeedHigh)
        z_for_dist == IF IsStr(cfg.dist_x1) /\ cfg.dist_x1[1] = "N21"
                      THEN Some(zcos) ELSE None
        scattered == "G10_" \in effect_names \/ "C11_" \in effect_names
        sct_seeds == IF scattered
                     THEN [i \in 1..n_sn |->
                              integers(RngSkip(s1, i), SeedLow, SctSeedHigh)]
                     ELSE <<>>
    IN  SncParList(gen_salt_par(n_sn, default_rng(model_seed), z_for_dist),
                   model_seed, scattered, sct_seeds)

\* BaseGen._compute_dust_par(ra, dec) raises on an unknown dust law
DustRaises ==
    Lower(Get(mw_dust).model) \notin KnownDustLaws
_compute_dust_par(ra, dec) ==
    [i \in 1..Len(ra) |->
        [mw_r_v |-> IF Lower(Get(mw_dust).model) \in {"ccm89", "od94"}
                    THEN Get(mw_dust).rv ELSE None,
         mw_ebv |-> Some(compute_ebv(ra[i], dec[i]))]]
NoDust == [mw_r_v |-> None, mw_ebv |-> None]

(***************************************************************************)
(* BaseGen.__call__                                                        *)
(***************************************************************************)
\* astrobj_par['mag_sct'] = <n values> raises for a DataFrame of another
\* length (pandas) and for a record array (no such field), not for a dict
ColumnRaises(par, n) ==
    \/ par.kind = "DataFrame" /\ Len(par.zcos) # n
    \/ par.kind = "records"

\* the exception __call__ raises after update_seeds were drawn, "" if none
TailRaises(par, n_obj, snc_raised, dusty) ==
    IF ColumnRaises(par, n_obj) THEN "ValueError"
    ELSE IF snc_raised # "" THEN snc_raised
    ELSE IF dusty /\ DustRaises THEN "ValueError"
    ELSE ""

\* (mutant) the sncosmo and dust dicts are paired with the rows from the
\* last row back
astrobj_list_reversed(par2, snc_par, dust_par) ==
    LET n == Min(Len(snc_par), Len(dust_par))
    IN  [i \in 1..n |->
            [zcos |-> par2.zcos[i],
             como_dist |-> par2.como_dist[i],
             z2cmb |-> par2.z2cmb[i],
             sim_t0 |-> par2.sim_t0[i],
             ra |-> par2.ra[i],
             dec |-> par2.dec[i],
             vpec |-> par2.vpec[i],
             dip_dM |-> IF IsNone(par2.dip_dM) THEN None
                        ELSE Some(Get(par2.dip_dM)[i]),
             mag_sct |-> Get(par2.mag_sct)[i],
             sncosmo |-> [x1 |-> snc_par[n + 1 - i].x1,
                          c |-> snc_par[n + 1 - i].c,
                          RndS |-> snc_par[n + 1 - i].RndS,
                          mw_r_v |-> dust_par[n + 1 - i].mw_r_v,
                          mw_ebv |-> dust_par[n + 1 - i].mw_ebv]]]

\* astrobj_list of __call__: record i merges row i of every column of the
\* table with the i-th sncosmo dict and the i-th dust dict
astrobj_list(par2, snc_par, dust_par) ==
    [i \in 1..Min(Len(snc_par), Len(dust_par)) |->
        [zcos |-> par2.zcos[i],
         como_dist |-> par2.como_dist[i],
         z2cmb |-> par2.z2cmb[i],
         sim_t0 |-> par2.sim_t0[i],
         ra |-> par2.ra[i],
         dec |-> par2.dec[i],
         vpec |-> par2.vpec[i],
         dip_dM |-> IF IsNone(par2.dip_dM) THEN None
                    ELSE Some(Get(par2.dip_dM)[i]),
         mag_sct |-> Get(par2.mag_sct)[i],
         sncosmo |-> [x1 |-> snc_par[i].x1,
                      c |-> snc_par[i].c,
                      RndS |-> snc_par[i].RndS,
                      mw_r_v |-> dust_par[i].mw_r_v,
                      mw_ebv |-> dust_par[i].mw_ebv]]]

\* what __call__ leaves once update_seeds were drawn: snc is what
\* gen_snc_par returned, err the exception raised
TailOutcome(n_obj, par, par2, snc, dust_par, err, update_seeds, u3) ==
    LET useeds == [i \in 1..3 |-> [role |-> "update", v |-> update_seeds[i]]]
    IN  [raised |-> err,
         rand_gen |-> u3,
         update_seeds |-> update_seeds,
         n21_branch |-> ~ColumnRaises(par, n_obj) /\ snc.n21_branch,
         sim_x1 |-> IF ColumnRaises(par, n_obj) THEN <<>> ELSE snc.sim_x1,
         par |-> IF ColumnRaises(par, n_obj) THEN par ELSE par2,
         seeds |-> IF ColumnRaises(par, n_obj) THEN useeds
                   ELSE useeds \o snc.seeds,
         result |-> IF err # "" THEN <<>>
                    ELSE astrobj_list(par2, snc.snc_par, dust_par)]

\* __call__ from update_seeds on: par is the table, s the state of rand_gen
CallTail(n_obj, par, s) ==
    LET u1 == RngSkip(s, 1)
        u2 == RngSkip(s, 2)
        u3 == RngSkip(s, 3)
        update_seeds == <<integers(u1, SeedLow, SeedHigh),
                          integers(u2, SeedLow, SeedHigh),
                          integers(u3, SeedLow, SeedHigh)>>
        dusty == "mw_" \in effect_names
    IN  TailOutcome(
            n_obj, par,
            _update_astrobj_par(n_obj, par, default_rng(update_seeds[1])),
            gen_snc_par(n_obj, par.zcos, default_rng(update_seeds[2])),
            IF dusty THEN _compute_dust_par(par.ra, par.dec)
            ELSE [i \in 1..Len(par.ra) |-> NoDust],
            TailRaises(par, n_obj,
                       gen_snc_par(n_obj, par.zcos,
                                   default_rng(update_seeds[2])).raised,
                       dusty),
            update_seeds, u3)

\* the frame of a generate call
NoTable == [kind |-> "none", zcos |-> <<>>, como_dist |-> <<>>, z2cmb |-> <<>>,
            sim_t0 |-> <<>>, ra |-> <<>>, dec |-> <<>>, vpec |-> <<>>,
            dip_dM |-> None, mag_sct |-> None]
NoHead == [t0 |-> <<>>, zcos |-> <<>>, host |-> <<>>, opt_seeds |-> <<>>,
           seeds |-> <<>>, rand_gen |-> 0]
NoCall == [n_obj |-> 0, rand_seed |-> 0, given |-> None, root_gen |-> 0,
           rand_gen |-> 0,
           head |-> NoHead, coord_gen |-> 0, gen_tmp |-> 0,
           ra |-> <<>>, dec |-> <<>>, trials |-> 0,
           par |-> NoTable, update_seeds |-> <<>>, seeds |-> <<>>,
           n21_branch |-> FALSE, sim_x1 |-> <<>>,
           result |-> <<>>]

\* the frame when the call ends, returning or raising, with table par
Finish(frame, par, s) ==
    LET t == CallTail(frame.n_obj, par, s)
    IN  [frame EXCEPT !.rand_gen = t.rand_gen,
                      !.par = t.par,
                      !.update_seeds = t.update_seeds,
                      !.seeds = frame.seeds \o t.seeds,
                      !.n21_branch = t.n21_branch,
                      !.sim_x1 = t.sim_x1,
                      !.result = t.result]

\* the pre-generated tables a caller passes
Givens == {None, Some([kind |-> "DataFrame", m |-> MaxObj]),
           Some([kind |-> "dict", m |-> 1]), Some([kind |-> "records", m |-> 1])}

\* generator(n_obj, rand_seed, astrobj_par): runs to the return, to the
\* exception raised, or to the first test of the rejection loop of gen_coord
Call(n_obj, rand_seed, given) ==
    /\ status = "ok" /\ pc = "idle"
    /\ \E rg \in SeedSequence(rand_seed) :
       LET frame == [NoCall EXCEPT !.n_obj = n_obj, !.rand_seed = rand_seed,
                                   !.given = given, !.root_gen = rg,
                                   !.rand_gen = rg]
       IN  IF ~IsNone(given)
           THEN \* a pre-generated table: gen_astrobj_par is skipped
                /\ call' = Finish(frame, PreTable(Get(given)), rg)
                /\ raised' = CallTail(n_obj, PreTable(Get(given)), rg).raised
                /\ pc' = (IF raised' = "" THEN "done" ELSE "raised")
           ELSE IF AstroRaises # ""
           THEN \* the peak times are drawn before gen_zcos fails
                /\ call' = [frame EXCEPT !.head.t0 =
                               IF IsNone(time_range) THEN <<>>
                               ELSE gen_peak_time(n_obj, rg)]
                /\ raised' = AstroRaises
                /\ pc' = "raised"
           ELSE LET head == AstroHead(n_obj, rg)
                    withhead == [frame EXCEPT !.head = head,
                                              !.rand_gen = head.rand_gen,
                                              !.seeds = head.seeds]
                    cg == default_rng(head.opt_seeds[1])
                IN  IF ~IsNone(cfg.host)
                    THEN \* coordinates of the hosts
                         LET ra == [i \in 1..n_obj |-> head.host[i].ra]
                             dec == [i \in 1..n_obj |-> head.host[i].dec]
                             par == AstroTable(n_obj, head, ra, dec)
                             fin == Finish([withhead EXCEPT !.ra = ra, !.dec = dec],
                                           par, head.rand_gen)
                         IN  /\ call' = fin
                             /\ raised' = CallTail(n_obj, par, head.rand_gen).raised
                             /\ pc' = (IF raised' = "" THEN "done" ELSE "raised")
                    ELSE IF IsNone(cfg.survey_footprint)
                    THEN LET ra == gen_coord_ra(n_obj, cg)
                             dec == gen_coord_dec(n_obj, cg)
                             par == AstroTable(n_obj, head, ra, dec)
                             fin == Finish([withhead EXCEPT !.ra = ra, !.dec = dec,
                                               !.coord_gen = RngSkip(cg, 2 * n_obj)],
                                           par, head.rand_gen)
                         IN  /\ call' = fin
                             /\ raised' = CallTail(n_obj, par, head.rand_gen).raised
                             /\ pc' = (IF raised' = "" THEN "done" ELSE "raised")
                    ELSE \* footprint: seed the sub-generator, enter the loop
                         LET cg1 == RngNext(cg)
                             seed == integers(cg1, SeedLow, SeedHigh)
                         IN  /\ call' = [withhead EXCEPT
                                           !.coord_gen = cg1,
                                           !.gen_tmp = default_rng(seed),
                                           !.seeds = head.seeds \o
                                              <<[role |-> "footprint", v |-> seed]>>]
                             /\ raised' = ""
                             /\ pc' = "gen_coord"
    /\ UNCHANGED <<genvars, prev, sidevars>>

\* one turn of the rejection loop of gen_coord (ra from gen_tmp, dec from the
\* generator gen_coord was given), and on the n-th acceptance the rest of
\* the call
CoordStep ==
    /\ pc = "gen_coord"
    /\ Len(call.ra) < call.n_obj
    /\ LET t1 == RngNext(call.gen_tmp)
           c1 == RngNext(call.coord_gen)
           ra_tmp == uniform(t1, 0, TwoPi)
           dec_tmp == arcsin2u(random(c1))
           ok == CoordAccepted(Get(cfg.survey_footprint), ra_tmp, dec_tmp)
           ra == IF ok THEN Append(call.ra, ra_tmp) ELSE call.ra
           dec == IF ok THEN Append(call.dec, dec_tmp) ELSE call.dec
           frame == [call EXCEPT !.gen_tmp = t1, !.coord_gen = c1,
                                 !.ra = ra, !.dec = dec,
                                 !.trials = Min(call.trials + 1, MaxTrials)]
       IN  IF Len(ra) < call.n_obj
           THEN /\ call' = frame
                /\ UNCHANGED <<pc, raised>>
           ELSE LET par == AstroTable(call.n_obj, call.head, ra, dec)
                IN  /\ call' = Finish(frame, par, call.rand_gen)
                    /\ raised' = CallTail(call.n_obj, par, call.rand_gen).raised
                    /\ pc' = (IF raised' = "" THEN "done" ELSE "raised")
    /\ UNCHANGED <<genvars, prev, sidevars>>

\* what is kept of a completed call
Outcome ==
    [n_obj |-> call.n_obj, rand_seed |-> call.rand_seed, given |-> call.given,
     pc |-> pc, raised |-> raised, update_seeds |-> call.update_seeds,
     seeds |-> call.seeds, result |-> call.result,
     time_range |-> time_range, z_cdf |-> z_cdf, cfg |-> cfg]

\* the caller takes the list returned, or the exception; with keep the
\* first completed call is remembered
Return(keep) ==
    /\ pc \in {"done", "raised"}
    /\ pc' = "idle"
    /\ call' = NoCall
    /\ prev' = (IF keep /\ IsNone(prev) THEN Some(Outcome) ELSE prev)
    /\ UNCHANGED <<genvars, raised, sidevars>>

(***************************************************************************)
(* The observed redshift: ut.zobs_MinT_MaxT and the sn_sim class.          *)
(***************************************************************************)
\* the speed of light in velocity ticks (a tick is 1000 km/s, rounded)
C_LIGHT_KMS == 300

\* a product (1 + a)(1 + b)(1 + v / c) - 1 is kept exactly, as its numerator
\* over ZDen; a sum of redshifts is brought to the same denominator
ZDen == ZOne * ZOne * C_LIGHT_KMS

\* (mutant) the redshifts are added
zobs_MinT_MaxT_additive(par, model_t_range) ==
    LET zobs == par.zcos * ZOne * C_LIGHT_KMS + par.z2cmb * ZOne * C_LIGHT_KMS
                    + par.vpec * ZOne * ZOne
    IN  [zobs |-> zobs,
         MinT |-> par.sim_t0 * ZDen + model_t_range[1] * (ZDen + zobs),
         MaxT |-> par.sim_t0 * ZDen + model_t_range[2] * (ZDen + zobs)]

\* ut.zobs_MinT_MaxT(par, model_t_range): zobs, MinT and MaxT over ZDen
zobs_MinT_MaxT(par, model_t_range) ==
    LET zobs == (ZOne + par.zcos) * (ZOne + par.z2cmb)
                    * (C_LIGHT_KMS + par.vpec) - ZDen
    IN  [zobs |-> zobs,
         MinT |-> par.sim_t0 * ZDen + model_t_range[1] * (ZDen + zobs),
         MaxT |-> par.sim_t0 * ZDen + model_t_range[2] * (ZDen + zobs)]

\* the parameter dicts and model time ranges the function is applied to
AstrObjPars ==
    [zcos : {0, 4, 12}, z2cmb : {0 - 2, 0, 2}, vpec : {0 - 3, 0, 6},
     sim_t0 : {16}]
ModelTRanges == {<<0 - 20, 50>>, <<0 - 10, 30>>}
NoAstrObj == [par |-> [zcos |-> 0, z2cmb |-> 0, vpec |-> 0, sim_t0 |-> 0],
              model_t_range |-> <<0, 0>>, out |-> None]

\* a caller applies zobs_MinT_MaxT to the arguments it holds
ZobsMinTMaxT ==
    /\ IsNone(astrobj.out)
    /\ astrobj.model_t_range # <<0, 0>>
    /\ astrobj' = [astrobj EXCEPT
                     !.out = Some(zobs_MinT_MaxT(astrobj.par, astrobj.model_t_range))]
    /\ UNCHANGED <<genvars, raised, pc, call, prev, header, other, sn_sim,
                   utilvars>>

\* sn_sim: integers(low=1000, high=10000), the exclusive high of its seeds
LegacySeedHigh == 10000

\* the sim_cfg and the observation tables an sn_sim instance holds when
\* simulate calls gen_param_array
SnSimCfg(randseed, n_sn, vpec_gen) ==
    [sn_gen |-> [randseed |-> randseed, n_sn |-> n_sn, z_range |-> <<4, 12>>,
                 mag_smear |-> 1, M0 |-> 0 - 19],
     vpec_gen |-> vpec_gen,
     salt2_gen |-> [alpha |-> 1, beta |-> 3, mean_x1 |-> 0, sig_x1 |-> 1,
                    mean_c |-> 0, sig_c |-> 1],
     obs |-> [i \in 1..n_sn |-> [RA |-> 3 * i, DEC |-> i]]]
SnSimCfgs ==
    {SnSimCfg(rs, n, vg) :
        rs \in {None, Some(42), Some(1234)}, n \in 1..MaxObj,
        vg \in {[mean_vpec |-> 0, sig_vpec |-> 3],
                [mean_vpec |-> 1, sig_vpec |-> 2]}}

\* the attributes gen_param_array sets, before it ran
SnSimNew(c) ==
    [sim_cfg |-> c, randseed |-> None, randseeds |-> <<>>,
     zcos |-> <<>>, ra |-> <<>>, dec |-> <<>>, z2cmb |-> <<>>, vpec |-> <<>>,
     zpec |-> <<>>, zCMB |-> <<>>, zobs |-> <<>>, sim_x1 |-> <<>>,
     sim_c |-> <<>>, mag_smear |-> <<>>, sim_mu |-> <<>>, sim_mB |-> <<>>,
     sim_x0 |-> <<>>, sim_t0 |-> <<>>, params |-> <<>>]
NoSnSim == SnSimNew(SnSimCfg(None, 0, [mean_vpec |-> 0, sig_vpec |-> 0]))

\* np.log10 of a positive number, rounded down
RECURSIVE log10(_)
log10(x) == IF x < 10 THEN 0 ELSE 1 + log10(x \div 10)

\* sn_sim.gen_z2cmb: the formula of ut.compute_z2cmb on degrees
gen_z2cmb(ra, dec) == [i \in 1..Len(ra) |-> compute_z2cmb(ra[i], dec[i])]

\* sn_sim.x0_to_mB(par, 1): x0 = 10**(-0.4 * (mB - snc_mag_offset)), kept
\* as its decimal logarithm in tenths (snc_mag_offset rounded to 10)
x0_to_mB(par) == [log10_x0 |-> 0 - 4 * (par - 10)]

\* sn_sim.gen_param_array, e the entropy the global numpy generator gives
gen_param_array(e) ==
    /\ sn_sim.sim_cfg.sn_gen.n_sn > 0
    /\ LET c == sn_sim.sim_cfg
           n == c.sn_gen.n_sn
           randseed == IF ~IsNone(c.sn_gen.randseed) THEN Get(c.sn_gen.randseed)
                       ELSE integers(RngNext(default_rng(e)), SeedLow, LegacySeedHigh)
           rs == [k \in 1..7 |-> integers(RngSkip(default_rng(randseed), k),
                                          SeedLow, LegacySeedHigh)]
           randseeds == [z_seed |-> rs[1], x0_seed |-> rs[2], x1_seed |-> rs[3],
                         c_seed |-> rs[4], coord_seed |-> rs[5],
                         vpec_seed |-> rs[6], smearM_seed |-> rs[7]]
           zcos == [i \in 1..n |->
                       uniform(RngSkip(default_rng(randseeds.z_seed), i),
                               c.sn_gen.z_range[1], c.sn_gen.z_range[2])]
           ra == [i \in 1..n |-> c.obs[i].RA]
           dec == [i \in 1..n |-> c.obs[i].DEC]
           z2cmb == gen_z2cmb(ra, dec)
           vpec == [i \in 1..n |->
                       normal(RngSkip(default_rng(randseeds.vpec_seed), i),
                              c.vpec_gen.mean_vpec, c.vpec_gen.sig_vpec)]
           \* zpec = vpec / c_light_kms, in units of 1 / C_LIGHT_KMS
           zpec == vpec
           sim_x1 == [i \in 1..n |->
                         normal(RngSkip(default_rng(randseeds.x1_seed), i),
                                c.salt2_gen.mean_x1, c.salt2_gen.sig_x1)]
           sim_c == [i \in 1..n |->
                        normal(RngSkip(default_rng(randseeds.c_seed), i),
                               c.salt2_gen.mean_c, c.salt2_gen.sig_c)]
           mag_smear == [i \in 1..n |->
                            normal(RngSkip(default_rng(randseeds.smearM_seed), i),
                                   0, c.sn_gen.mag_smear)]
           sim_mu == [i \in 1..n |->
                        LET a == ((ZOne + zcos[i]) * (ZOne + z2cmb[i])
                                     * (C_LIGHT_KMS + zpec[i])) \div C_LIGHT_KMS
                            b == (a * (C_LIGHT_KMS + zpec[i])) \div C_LIGHT_KMS
                        IN  5 * log10(b * comoving_distance(zcos[i])) + 25]
           sim_mB == [i \in 1..n |->
                        sim_mu[i] + c.sn_gen.M0 - c.salt2_gen.alpha * sim_x1[i]
                            + c.salt2_gen.beta * sim_c[i] + mag_smear[i]]
           sim_x0 == [i \in 1..n |-> x0_to_mB(sim_mB[i])]
           zobs == [i \in 1..n |->
                       (ZOne + zcos[i]) * (C_LIGHT_KMS + zpec[i])
                           * (ZOne + z2cmb[i]) - ZDen]
           sim_t0 == [i \in 1..n |-> 52000 + 20 + 30 * (i - 1)]
       IN  sn_sim' =
             [sim_cfg |-> c, randseed |-> Some(randseed), randseeds |-> rs,
              zcos |-> zcos, ra |-> ra, dec |-> dec, z2cmb |-> z2cmb,
              vpec |-> vpec, zpec |-> zpec,
              zCMB |-> [i \in 1..n |->
                           (ZOne + zcos[i]) * (C_LIGHT_KMS + zpec[i])
                               - ZOne * C_LIGHT_KMS],
              zobs |-> zobs, sim_x1 |-> sim_x1, sim_c |-> sim_c,
              mag_smear |-> mag_smear, sim_mu |-> sim_mu, sim_mB |-> sim_mB,
              sim_x0 |-> sim_x0, sim_t0 |-> sim_t0,
              params |-> [i \in 1..n |->
                             [z |-> zobs[i], t0 |-> sim_t0[i], x0 |-> sim_x0[i],
                              x1 |-> sim_x1[i], c |-> sim_c[i]]]]
    /\ UNCHANGED <<genvars, raised, pc, call, prev, header, other, astrobj,
                   utilvars>>

\* the second generate call of the instance, none running
NoOther == [pc |-> "idle", call |-> NoCall, raised |-> ""]

\* the interpreter suspends the running generate call and resumes the
\* other call of the instance (or lets the caller start one)
Switch ==
    /\ status = "ok"
    /\ pc # "idle" \/ other.pc # "idle"
    /\ other' = [pc |-> pc, call |-> call, raised |-> raised]
    /\ pc' = other.pc
    /\ call' = other.call
    /\ raised' = other.raised
    /\ UNCHANGED <<genvars, prev, header, astrobj, sn_sim, utilvars>>

(***************************************************************************)
(* Specifications.                                                         *)
(***************************************************************************)
Init ==
    /\ status = "none"
    /\ cfg = NoConfig
    /\ rate_law = None
    /\ mw_dust = None
    /\ effect_names = {}
    /\ time_range = None
    /\ z_cdf = None
    /\ z_time_rate = None
    /\ z_range_arg = None
    /\ raised = ""
    /\ pc = "idle"
    /\ call = NoCall
    /\ prev = None
    /\ header = None
    /\ other = NoOther
    /\ astrobj = NoAstrObj
    /\ sn_sim = NoSnSim
    /\ n21 = NoN21
    /\ cosmo = NoCosmo

Next ==
    \/ \E c \in CoreConfigs \cup ExtraConfigs : Construct(c)
    \/ GetHeader
    \/ \E tr \in TimeRanges : SetTimeRange(tr)
    \/ \E zr \in ZRanges : ComputeZcdf(zr)
    \/ \E n \in 1..MaxObj, sd \in Seeds \cup {NoSeed}, g \in Givens :
          Call(n, sd, g)
    \/ CoordStep
    \/ Return(FALSE)

Spec == Init /\ [][Next]_vars

\* generators over a footprint under the scheduling of a running Python
\* call: a call in the rejection loop takes its next turn
LoopConfigs ==
    {Config(vp, None, fp, None, sct, RateNum(2)) :
        vp \in VpecDists, fp \in {Some(FpPart), Some(FpEmpty)},
        sct \in SctModels}

NextLoop ==
    \/ \E c \in LoopConfigs : Construct(c)
    \/ \E tr \in TimeRanges : SetTimeRange(tr)
    \/ \E zr \in ZRanges : ComputeZcdf(zr)
    \/ \E n \in 1..MaxObj, sd \in Seeds : Call(n, sd, None)
    \/ CoordStep
    \/ Return(FALSE)

FairSpec == Init /\ [][NextLoop]_vars /\ WF_vars(CoordStep)

\* two calls on one generator compared: the first completed call is kept,
\* and the generator is configured before it
PairConfigs ==
    {Config(vp, ho, fp, None, sct, RateNum(2)) :
        vp \in VpecDists, ho \in Hosts, fp \in {None, Some(FpPart)},
        sct \in SctModels}

NextPair ==
    \/ \E c \in PairConfigs : Construct(c)
    \/ \E tr \in TimeRanges : IsNone(prev) /\ SetTimeRange(tr)
    \/ \E zr \in ZRanges : IsNone(prev) /\ ComputeZcdf(zr)
    \/ \E n \in 1..MaxObj, sd \in Seeds, g \in Givens : Call(n, sd, g)
    \/ CoordStep
    \/ Return(TRUE)

SpecPair == Init /\ [][NextPair]_vars

\* two generate calls of one instance interleaved: a first call runs alone
\* and is kept, then calls are started, suspended and resumed at every step
InterConfigs ==
    {Config(vp, None, fp, None, None, RateNum(2)) :
        vp \in VpecDists, fp \in {None, Some(FpPart)}}

NextInter ==
    \/ \E c \in InterConfigs : Construct(c)
    \/ IsNone(prev) /\ SetTimeRange(<<0, 16>>)
    \/ IsNone(prev) /\ ComputeZcdf(<<0, 12>>)
    \/ \E n \in 1..MaxObj, sd \in Seeds : Call(n, sd, None)
    \/ CoordStep
    \/ Return(TRUE)
    \/ ~IsNone(prev) /\ Switch

SpecInter == Init /\ [][NextInter]_vars

\* the caller drops the generator it holds; it may construct another
Discard ==
    /\ status # "none" /\ pc = "idle"
    /\ status' = "none"
    /\ cfg' = NoConfig
    /\ rate_law' = None
    /\ mw_dust' = None
    /\ effect_names' = {}
    /\ time_range' = None
    /\ z_cdf' = None
    /\ z_time_rate' = None
    /\ z_range_arg' = None
    /\ raised' = ""
    /\ UNCHANGED <<pc, call, prev, sidevars>>

\* generators that differ in the velocity distribution only, one after the
\* other: the first completed call is kept, then the caller may construct
\* another generator and set it up; time ranges of every kind are set
TimeRanges3 == TimeRanges \cup {<<4, 4>>}
TwinConfigs ==
    {Config(vp, None, fp, None, None, RateNum(2)) :
        vp \in VpecDists, fp \in {None, Some(FpPart)}}

NextTwin ==
    \/ \E c \in TwinConfigs : Construct(c)
    \/ \E tr \in TimeRanges3 : SetTimeRange(tr)
    \/ ComputeZcdf(<<0, 12>>)
    \/ \E n \in 1..MaxObj, sd \in Seeds : Call(n, sd, None)
    \/ CoordStep
    \/ Return(TRUE)
    \/ ~IsNone(prev) /\ Discard

SpecTwin == Init /\ [][NextTwin]_vars

\* the functions of the observed redshift applied to the arguments a caller
\* holds, and sn_sim.gen_param_array run on a configured sn_sim
InitObs ==
    /\ status = "none"
    /\ cfg = NoConfig
    /\ rate_law = None
    /\ mw_dust = None
    /\ effect_names = {}
    /\ time_range = None
    /\ z_cdf = None
    /\ z_time_rate = None
    /\ z_range_arg = None
    /\ raised = ""
    /\ pc = "idle"
    /\ call = NoCall
    /\ prev = None
    /\ header = None
    /\ other = NoOther
    /\ \E par \in AstrObjPars, tr \in ModelTRanges :
          astrobj = [par |-> par, model_t_range |-> tr, out |-> None]
    /\ \E c \in SnSimCfgs : sn_sim = SnSimNew(c)
    /\ n21 = NoN21
    /\ cosmo = NoCosmo

NextObs ==
    \/ ZobsMinTMaxT
    \/ \E e \in Entropy : gen_param_array(e)

SpecObs == InitObs /\ [][NextObs]_vars

\* the functions of salt_utils and utils applied to the arguments a caller
\* holds
InitUtil ==
    /\ status = "none"
    /\ cfg = NoConfig
    /\ rate_law = None
    /\ mw_dust = None
    /\ effect_names = {}
    /\ time_range = None
    /\ z_cdf = None
    /\ z_time_rate = None
    /\ z_range_arg = None
    /\ raised = ""
    /\ pc = "idle"
    /\ call = NoCall
    /\ prev = None
    /\ header = None
    /\ other = NoOther
    /\ astrobj = NoAstrObj
    /\ sn_sim = NoSnSim
    /\ \E z \in N21Zs, s \in N21Gens :
          n21 = [NoN21 EXCEPT !.z = z, !.rand_gen = s]
    /\ \E d \in CosmoDics : cosmo = [NoCosmo EXCEPT !.dic = d]

NextUtil ==
    \/ N21X1Model
    \/ SetCosmo

SpecUtil == InitUtil /\ [][NextUtil]_vars

(***************************************************************************)
(* Claims.                                                                 *)
(***************************************************************************)
\* the running call has the inputs of the call kept in prev, on the same
\* generator state
SameInputs ==
    /\ ~IsNone(prev)
    /\ call.n_obj = Get(prev).n_obj
    /\ call.rand_seed = Get(prev).rand_seed
    /\ call.given = Get(prev).given
    /\ time_range = Get(prev).time_range
    /\ z_cdf = Get(prev).z_cdf

\* C1: two generate calls with the same configuration, root seed and n_obj
\* end the same way and return identical records, in the same order, with
\* or without a footprint.
C1_Reproducible ==
    (pc \in {"done", "raised"} /\ SameInputs)
        => /\ pc = Get(prev).pc
           /\ raised = Get(prev).raised
           /\ call.result = Get(prev).result

\* C1 witness: a second call over a footprint returned the records of the
\* first one.
C1_Witness ==
    /\ pc = "done" /\ SameInputs
    /\ IsNone(call.given) /\ ~IsNone(cfg.survey_footprint) /\ IsNone(cfg.host)
    /\ call.n_obj >= 2
    /\ Len(call.result) = call.n_obj
    /\ call.result = Get(prev).result

\* C2: with both vpec_dist and host configured the constructor raises, no
\* generator exists and no generate call runs.
C2_VpecHostExclusive ==
    (~IsNone(cfg.vpec_dist) /\ ~IsNone(cfg.host))
        => /\ status = "failed"
           /\ raised = "ValueError"
           /\ pc = "idle"
           /\ call = NoCall

\* C2 witness: a constructor given both has failed.
C2_Witness ==
    /\ ~IsNone(cfg.vpec_dist) /\ ~IsNone(cfg.host)
    /\ status = "failed"

\* C3: a generate call that returns, returns exactly n_obj records.
C3_FullBatch == pc = "done" => Len(call.result) = call.n_obj

\* C4: the probability column of a stored redshift CDF starts at exactly 0,
\* ends at exactly 1 and never decreases.
C4_CdfShape ==
    ~IsNone(z_cdf)
        => LET p == Get(z_cdf).p
           IN  /\ FEq(p[1], 0)
               /\ FEq(p[Len(p)], POne)
               /\ \A i \in 1..(Len(p) - 1) : FLe(p[i], p[i + 1])

\* C5: sampling the stored CDF maps u = 0 to z_min, u = 1 to z_max and every
\* u of [0, 1] into [z_min, z_max].
C5_NoExtrapolation ==
    (~IsNone(z_cdf) /\ ~InterpRaises(Get(z_cdf).p, Get(z_cdf).z))
        => LET z_min == Get(z_range_arg)[1]
               z_max == Get(z_range_arg)[2]
           IN  /\ FEq(zcos_of(0), z_min)
               /\ FEq(zcos_of(POne), z_max)
               /\ \A u \in 0..POne :
                     FLe(z_min, zcos_of(u)) /\ FLe(zcos_of(u), z_max)

\* the coordinates gen_coord holds lie all in the footprint
AllInFootprint(ra, dec) ==
    /\ Len(ra) = Len(dec)
    /\ \A i \in 1..Len(ra) :
          LET fp == Get(cfg.survey_footprint)
          IN  fp.ra0 < ra[i] /\ ra[i] < fp.ra1
              /\ fp.dec0 < dec[i] /\ dec[i] < fp.dec1

\* a generate call that drew its coordinates over a footprint
OverFootprint ==
    pc # "idle" /\ IsNone(call.given) /\ IsNone(cfg.host)
    /\ ~IsNone(cfg.survey_footprint)

\* C6: with a footprint, every pair gen_coord accepted lies in the footprint,
\* during the loop and at its end, and gen_coord returns exactly n pairs.
C6_InFootprint ==
    /\ (OverFootprint /\ pc = "gen_coord")
          => AllInFootprint(call.ra, call.dec) /\ Len(call.ra) < call.n_obj
    /\ (OverFootprint /\ pc = "done")
          => /\ AllInFootprint(call.par.ra, call.par.dec)
             /\ Len(call.par.ra) = call.n_obj
             /\ Len(call.par.dec) = call.n_obj

\* C6 witness: gen_coord returned n pairs after rejecting a candidate.
C6_Witness ==
    /\ OverFootprint /\ pc = "done"
    /\ call.trials > call.n_obj
    /\ Len(call.par.ra) = call.n_obj

\* a footprint no candidate lies in
ZeroArea(fp) == fp.ra1 <= fp.ra0 \/ fp.dec1 <= fp.dec0

\* C7: over a footprint of zero area the rejection loop ends, with an error
\* reported.
C7_LoopEnds ==
    (pc = "gen_coord" /\ ZeroArea(Get(cfg.survey_footprint))) ~> (pc = "raised")

\* C8: every sub-seed a generate call derives lies in [1000, 10^6), and the
\* sub-seeds are a function of the root seed and the call's inputs.
C8_SubSeeds ==
    /\ \A i \in 1..Len(call.seeds) :
          SeedLow <= call.seeds[i].v /\ call.seeds[i].v < SeedHigh
    /\ (pc \in {"done", "raised"} /\ SameInputs)
          => call.seeds = Get(prev).seeds

\* C8 witness: a call drew host, update, model, SALT and scatter seeds, as
\* the earlier call with its inputs did.
C8_Witness ==
    /\ pc = "done" /\ SameInputs
    /\ \A r \in {"host", "opt", "update", "model", "salt", "scatter"} :
          \E i \in 1..Len(call.seeds) : call.seeds[i].role = r

\* C9: the three update sub-seeds of __call__ depend on rand_seed only.
C9_UpdateSeedsBySeed ==
    (/\ ~IsNone(prev)
     /\ Len(call.update_seeds) = 3
     /\ Len(Get(prev).update_seeds) = 3
     /\ call.rand_seed = Get(prev).rand_seed)
        => call.update_seeds = Get(prev).update_seeds

\* C10: no redshift CDF is stored for a range with z_min >= z_max.
C10_RangeChecked ==
    ~IsNone(z_cdf) => Get(z_range_arg)[1] < Get(z_range_arg)[2]

\* zcos + z_pec + z2cmb over ZDen
AdditiveZ(zcos, vpec, z2cmb) ==
    zcos * ZOne * C_LIGHT_KMS + vpec * ZOne * ZOne + z2cmb * ZOne * C_LIGHT_KMS

\* 1 + zobs is the product (1 + zcos)(1 + z_pec)(1 + z2cmb), z_pec = vpec / c,
\* and zobs is not the sum when the cross terms cannot cancel
Multiplicative(zobs, zcos, vpec, z2cmb) ==
    /\ ZDen + zobs = (ZOne + zcos) * (C_LIGHT_KMS + vpec) * (ZOne + z2cmb)
    /\ (zcos > 0 /\ vpec >= 0 /\ z2cmb >= 0 /\ vpec + z2cmb > 0)
          => zobs > AdditiveZ(zcos, vpec, z2cmb)

\* C11: the observed redshift zobs_MinT_MaxT and sn_sim.gen_param_array
\* compute satisfies 1 + z_obs = (1 + zcos)(1 + z_pec)(1 + z2cmb) with
\* z_pec = vpec / c_light; it is not the sum zcos + z_pec + z2cmb.
C11_ZobsMultiplicative ==
    /\ ~IsNone(astrobj.out)
          => Multiplicative(Get(astrobj.out).zobs, astrobj.par.zcos,
                            astrobj.par.vpec, astrobj.par.z2cmb)
    /\ \A i \in 1..Len(sn_sim.zobs) :
          Multiplicative(sn_sim.zobs[i], sn_sim.zcos[i], sn_sim.vpec[i],
                         sn_sim.z2cmb[i])

\* C11 witness: both computations ran on redshifts whose product and sum
\* differ.
C11_Witness ==
    /\ ~IsNone(astrobj.out)
    /\ astrobj.par.zcos > 0 /\ astrobj.par.vpec > 0 /\ astrobj.par.z2cmb > 0
    /\ Get(astrobj.out).zobs # AdditiveZ(astrobj.par.zcos, astrobj.par.vpec,
                                          astrobj.par.z2cmb)
    /\ \E i \in 1..Len(sn_sim.zobs) :
          sn_sim.zobs[i] # AdditiveZ(sn_sim.zcos[i], sn_sim.vpec[i],
                                     sn_sim.z2cmb[i])

\* C12: a generation run without a supplied root seed holds a seed, freshly
\* drawn, that its root generator was seeded with, so that the run can be
\* repeated: in a generate call of the generator, and in sn_sim.
C12_FreshSeedRecorded ==
    /\ pc # "idle"
          => /\ call.rand_seed # NoSeed
             /\ call.root_gen = default_rng(call.rand_seed)
    /\ Len(sn_sim.randseeds) > 0
          => /\ ~IsNone(sn_sim.randseed)
             /\ sn_sim.randseeds[1]
                   = integers(RngNext(default_rng(Get(sn_sim.randseed))),
                              SeedLow, LegacySeedHigh)

\* C13: once the constructor has returned the redshift CDF is defined, and
\* no generate call fails for want of it.
C13_CdfAtInit ==
    /\ status = "ok" => ~IsNone(z_cdf)
    /\ (pc = "raised" /\ IsNone(call.given) /\ IsNone(cfg.host)
            /\ ~IsNone(time_range))
          => raised # "TypeError"

\* C14: a generate call that ran interleaved with another call of the
\* instance, each with its own root seed, ends as it does when run alone and
\* returns the same records.
C14_Interleaved ==
    (pc \in {"done", "raised"} /\ SameInputs /\ other.pc # "idle"
        /\ other.call.rand_seed # call.rand_seed)
        => /\ pc = Get(prev).pc
           /\ raised = Get(prev).raised
           /\ call.result = Get(prev).result

\* C14 witness: a call over a footprint returned the records of its run
\* alone while another call, with another root seed, was inside its
\* rejection loop.
C14_Witness ==
    /\ pc = "done" /\ SameInputs
    /\ ~IsNone(cfg.survey_footprint)
    /\ call.trials >= 2
    /\ other.pc = "gen_coord" /\ other.call.trials >= 1
    /\ other.call.rand_seed # call.rand_seed
    /\ call.result = Get(prev).result

\* the keys a header holds
HeaderKeys(h) == {k \in DOMAIN h : h[k] # None}

\* the keys that record the object type, the rate, the model, the general
\* parameters, the shape distributions, the scatter, the dust and the
\* peculiar velocities
SettingKeys ==
    {"obj_type", "rate", "rate_pw", "model_name", "mw_dust", "mod_fcov", "M0",
     "sigM", "alpha", "beta", "mw_mod", "mw_rv", "m_vp", "s_vp", "mean_x1",
     "dist_x1", "sig_x1", "sig_x1_low", "sig_x1_hi", "mean_c", "dist_c",
     "sig_c", "sig_c_low", "sig_c_hi", "sct_mod", "sct_par"}

\* C15: the header records the object type, the rate and its power, the
\* model name, every general parameter and, when configured, the dust, the
\* peculiar-velocity and the dipole settings.
C15_HeaderComplete ==
    ~IsNone(header)
        => LET h == Get(header)
           IN  /\ {"obj_type", "rate", "rate_pw", "model_name", "mod_fcov",
                    "M0", "sigM", "alpha", "beta"} \subseteq HeaderKeys(h)
               /\ h.rate = Get(rate_law).z0
               /\ ~IsNone(cfg.mw_dust)
                     => {"mw_mod", "mw_rv", "mw_dust"} \subseteq HeaderKeys(h)
               /\ ~IsNone(cfg.vpec_dist)
                     => {"m_vp", "s_vp"} \subseteq HeaderKeys(h)
               /\ ~IsNone(cfg.dipole)
                     => HeaderKeys(h) \ SettingKeys # {}

\* C16: a constructor given a model name that is not salt2 or salt3, in
\* either case, or a model handle without flux covariance, raises
\* ValueError; no generator exists and no generate call runs.
C16_ModelChecked ==
    (status # "none"
        /\ (Lower(cfg.model_name) \notin {"salt2", "salt3"}
                \/ ~cfg.has_bandfluxcov))
        => /\ status = "failed"
           /\ raised = "ValueError"
           /\ pc = "idle" /\ call = NoCall /\ IsNone(header)

\* C16 witness: a constructor given an unsupported model name, on a handle
\* that has flux covariance, has failed.
C16_Witness ==
    /\ status = "failed"
    /\ raised = "ValueError"
    /\ Lower(cfg.model_name) \notin {"salt2", "salt3"}
    /\ cfg.has_bandfluxcov

\* C17: a constructor given params without a 'rate' key fails; no generator
\* is constructed.
C17_RateRequired ==
    (status # "none" /\ cfg.rate.kind = "absent") => status = "failed"

\* C18: a generate call that fails, fails before any per-object random
\* parameter (peak time, coordinate, coherent scatter) has been drawn; so
\* does the call that fails on a dust-law name that is no dust law.
C18_FailsAtStart ==
    pc = "raised"
        => /\ Len(call.head.t0) = 0
           /\ Len(call.ra) = 0
           /\ IsNone(call.par.mag_sct)

\* the total of the shell time rates the stored CDF was normalised by
TotalRate ==
    LET r == Get(z_time_rate).rate
    IN  IF Len(r) = 0 THEN 0 ELSE cumsum(r)[Len(r)]

\* C19: compute_zcdf stores no CDF obtained by dividing by a zero total, as
\* the total of a rate with rate_z0 = 0 is.
C19_ZeroRateFatal == ~IsNone(z_cdf) => TotalRate # 0

\* C20: over a footprint the generator gen_coord was given is drawn from
\* once, for the seed of the sub-generator, however many candidates are
\* tried.
C20_SubGeneratorOnly ==
    (OverFootprint /\ pc \in {"gen_coord", "done"})
        => call.coord_gen = RngNext(default_rng(call.head.opt_seeds[1]))

\* C21: n21_x1_model returns one x1 per input redshift; the x1 of an object
\* whose uniform variate is below delta(z) = 1 / (1 / (K (1 + z)^2.8) + 1) is
\* its Gaussian draw, the x1 of any other object is the value of the inverse
\* cumulative of the old population at the object's own second variate.
C21_OneBranch ==
    n21.called
        => /\ Len(n21.out) = Len(n21.z)
           /\ \A i \in 1..Len(n21.z) :
                 LET d == N21Draws(Len(n21.z), n21.rand_gen)
                 IN  IF d.young_or_old[i] * 100 < delta_z(n21.z[i]) * POne
                     THEN n21.out[i] = d.rand_normal[i]
                     ELSE n21.out[i] = interp(
                              (d.rand_old[i] * FOne) \div POne, F_old, N21_x)

\* C21 witness: of two objects one is young and one is old, and their two
\* candidate values differ.
C21_Witness ==
    /\ n21.called
    /\ Len(n21.z) = 2 /\ Len(n21.out) = 2
    /\ LET d == N21Draws(2, n21.rand_gen)
       IN  /\ is_young(d.young_or_old[1], n21.z[1])
           /\ ~is_young(d.young_or_old[2], n21.z[2])
           /\ interp_old(d.rand_old[1]) # 0
           /\ d.rand_normal[2] # 0
           /\ n21.out[1] = d.rand_normal[1]

\* C29: set_cosmo on a dict without 'name' and without 'Ode0' returns a
\* model built with Ode0 = 1 - Om0 - Ok0, Ok0 taken from the dict, and
\* removed from it, or 0 when the dict has none.
C29_Ode0Derived ==
    (cosmo.called /\ IsNone(cosmo.arg.name) /\ IsNone(cosmo.arg.Ode0))
        => /\ cosmo.out.raised = ""
           /\ ~IsNone(cosmo.out.model)
           /\ Get(cosmo.out.model).Ode0
                 = Some(100 - Get(cosmo.arg.Om0)
                          - (IF IsNone(cosmo.arg.Ok0) THEN 0
                             ELSE Get(cosmo.arg.Ok0)))
           /\ IsNone(cosmo.dic.Ok0)

\* the columns gen_astrobj_par gives a table
BasicColumns ==
    {"zcos", "como_dist", "z2cmb", "sim_t0", "ra", "dec", "vpec", "dip_dM"}

TwinCalls ==
    /\ ~IsNone(prev)
    /\ pc = "done" /\ Get(prev).pc = "done"
    /\ IsNone(call.given) /\ IsNone(Get(prev).given)
    /\ call.n_obj = Get(prev).n_obj
    /\ call.rand_seed = Get(prev).rand_seed
    /\ time_range = Get(prev).time_range
    /\ z_cdf = Get(prev).z_cdf
    /\ IsNone(cfg.host)
    /\ [cfg EXCEPT !.vpec_dist = None] = [Get(prev).cfg EXCEPT !.vpec_dist = None]

\* C23: without host, the same seed and n_obj give the same sim_t0, zcos, ra
\* and dec on a generator with a velocity distribution and on one without.
C23_VpecIndependent ==
    TwinCalls
        => /\ Len(call.result) = Len(Get(prev).result)
           /\ \A i \in 1..Len(call.result) :
                 LET a == call.result[i]
                     b == Get(prev).result[i]
                 IN  /\ a.sim_t0 = b.sim_t0
                     /\ a.zcos = b.zcos
                     /\ a.ra = b.ra
                     /\ a.dec = b.dec

\* C23 witness: two calls over a footprint, one on a generator with a
\* velocity distribution and one on a generator without, returned records
\* that differ in vpec and agree in ra.
C23_Witness ==
    /\ TwinCalls
    /\ cfg.vpec_dist # Get(prev).cfg.vpec_dist
    /\ ~IsNone(cfg.survey_footprint)
    /\ call.n_obj = 2 /\ Len(call.result) = 2
    /\ \E i \in 1..2 : call.result[i].vpec # Get(prev).result[i].vpec
    /\ \A i \in 1..2 : call.result[i].ra = Get(prev).result[i].ra

\* C24: the stored time range is unset or a pair (min, max) with
\* min <= max; the setter given a pair with min > max leaves the stored
\* range as it is and raises nothing, given any other pair it stores it.
C24_TimeRangeOrdered ==
    /\ [](IsNone(time_range) \/ Get(time_range)[1] <= Get(time_range)[2])
    /\ [][\A tr \in TimeRanges3 :
             SetTimeRange(tr)
                => /\ raised' = ""
                   /\ time_range' = (IF tr[1] > tr[2] THEN time_range
                                      ELSE Some(tr))]_vars

\* C24 witness: a range was stored, used by a call, and replaced by another
\* range, of one instant.
C24_Witness ==
    /\ ~IsNone(prev)
    /\ Get(prev).cfg = cfg
    /\ Get(prev).time_range = Some(<<0, 16>>)
    /\ time_range = Some(<<4, 4>>)

\* C25: once the constructor of SNIaGen has returned, rate_law is a pair
\* whose rate_z0 is a number, whatever params['rate'] was: a number, a
\* numeric string, the name ptf19 or any other string.
C25_RateLawDefined ==
    status = "ok" => (~IsNone(rate_law) /\ ~IsNone(Get(rate_law).z0))

\* C26: with mw_dust configured, with or without 'rv', the constructor puts
\* the dust effect on the model and every record of a later generate call
\* holds mw_ebv; rv is 3.1 when it was absent and the value given otherwise.
C26_DustInitialised ==
    (status = "ok" /\ ~IsNone(cfg.mw_dust))
        => /\ "mw_" \in effect_names
           /\ Get(mw_dust).rv = (IF IsNone(Get(cfg.mw_dust).rv)
                                  THEN Some(DefaultRv)
                                  ELSE Get(cfg.mw_dust).rv)
           /\ pc = "done"
                 => \A i \in 1..Len(call.result) :
                       ~IsNone(call.result[i].sncosmo.mw_ebv)

\* C27: a generate call in which gen_salt_par took the N21 branch was given
\* the redshifts of its objects by gen_snc_par: n21_x1_model does not fail
\* for want of z, and it produced n_sn values of x1.
C27_N21GetsZ ==
    (pc \in {"done", "raised"} /\ call.n21_branch)
        => /\ raised # "TypeError"
           /\ Len(call.sim_x1) = call.n_obj

\* the i-th sncosmo dict gen_snc_par builds in the running call and the
\* i-th dust dict, merged: x1 and c as gen_salt_par drew them, the seed of
\* the scatter effect when the model has one, the dust of the position
ExpectedSncosmo(i) ==
    LET g == RngNext(default_rng(call.update_seeds[2]))
        model_seed == integers(g, SeedLow, SeedHigh)
        c_seed == integers(RngSkip(default_rng(model_seed), 2), SeedLow, SeedHigh)
        dusty == "mw_" \in effect_names
    IN  [x1 |-> call.sim_x1[i],
         c |-> asym_gauss(cfg.dist_c, default_rng(c_seed), call.n_obj)[i],
         RndS |-> IF effect_names \cap {"G10_", "C11_"} # {}
                  THEN Some(integers(RngSkip(g, i), SeedLow, SctSeedHigh))
                  ELSE None,
         mw_r_v |-> IF dusty /\ Lower(Get(mw_dust).model) \in {"ccm89", "od94"}
                    THEN Get(mw_dust).rv ELSE None,
         mw_ebv |-> IF dusty
                    THEN Some(compute_ebv(call.par.ra[i], call.par.dec[i]))
                    ELSE None]

\* C28: record i of the list a generate call returns holds row i of every
\* column of the parameter table, and its sncosmo entry is the i-th
\* type-specific dict (x1, c, the scatter seed if any) merged with the i-th
\* dust dict.
C28_RecordsByRow ==
    pc = "done"
        => \A i \in 1..Len(call.result) :
              LET r == call.result[i]
                  par == call.par
              IN  /\ r.zcos = par.zcos[i]
                  /\ r.como_dist = par.como_dist[i]
                  /\ r.z2cmb = par.z2cmb[i]
                  /\ r.sim_t0 = par.sim_t0[i]
                  /\ r.ra = par.ra[i]
                  /\ r.dec = par.dec[i]
                  /\ r.vpec = par.vpec[i]
                  /\ r.mag_sct = Get(par.mag_sct)[i]
                  /\ r.dip_dM = (IF IsNone(par.dip_dM) THEN None
                                  ELSE Some(Get(par.dip_dM)[i]))
                  /\ r.sncosmo = ExpectedSncosmo(i)

\* C28 witness: a call returned two records over dust and a scatter model
\* whose rows differ in position, in dust and in scatter seed.
C28_Witness ==
    /\ pc = "done" /\ Len(call.result) = 2
    /\ call.result[1].ra # call.result[2].ra
    /\ ~IsNone(call.result[1].sncosmo.mw_ebv)
    /\ call.result[1].sncosmo.mw_ebv # call.result[2].sncosmo.mw_ebv
    /\ ~IsNone(call.result[1].sncosmo.RndS)
    /\ call.result[1].sncosmo.RndS # call.result[2].sncosmo.RndS
    /\ call.result[1].sncosmo = ExpectedSncosmo(1)

====
